---- MODULE Spec2Model ----
(***************************************************************************)
(* Model of the AI interview coach:                                        *)
(*   - the Prompt Relay, POST /api/generate-prompt                         *)
(*     (src/app/api/generate-prompt/route.ts, lines 8-46);                 *)
(*   - the session view, RecordingPage inside Home                         *)
(*     (src/unnamed/part_000, lines 117-339).                              *)
(*                                                                         *)
(* Strings are sequences of tokens.  A token is one character of a small   *)
(* alphabet (" " is whitespace, "a" and "b" are letters) or one whole string   *)
(* literal of the source, which is a single non-whitespace token.          *)
(***************************************************************************)
EXTENDS Integers, Sequences, FiniteSets

\* ------------------------------------------------------------------ bounds
\* longest transcription / topic string of a relay request body
MaxFieldLen == 1
\* longest completion text the Prompt Service returns
MaxContentLen == 3

\* ----------------------------------------------------------------- strings
Whitespace == {" "}
Letters == {"a"}
Alphabet == Whitespace \cup Letters

Strings(n) == UNION {[1..k -> Alphabet] : k \in 0..n}

\* String.prototype.trim: drops leading and trailing whitespace
RECURSIVE TrimStart(_)
TrimStart(s) ==
  IF s = <<>> THEN s
  ELSE IF Head(s) \in Whitespace THEN TrimStart(Tail(s)) ELSE s

RECURSIVE TrimEnd(_)
TrimEnd(s) ==
  IF s = <<>> THEN s
  ELSE IF s[Len(s)] \in Whitespace THEN TrimEnd(SubSeq(s, 1, Len(s) - 1)) ELSE s

Trim(s) == TrimEnd(TrimStart(s))

\* ------------------------------------------------------ relay: JSON values
\* a value of a field of the request body, after request.json(): t is its
\* JavaScript type, s the text of a string, n the value of a number
JUndefined == [t |-> "undefined", s |-> <<>>, n |-> 0]
JNull == [t |-> "null", s |-> <<>>, n |-> 0]
JNum(n) == [t |-> "number", s |-> <<>>, n |-> n]
JStr(s) == [t |-> "string", s |-> s, n |-> 0]

FieldValues == {JUndefined, JNull, JNum(0), JNum(1)} \cup {JStr(s) : s \in Strings(MaxFieldLen)}

\* JavaScript truthiness, as `!transcription || !topic` reads it
Truthy(v) ==
  CASE v.t = "undefined" -> FALSE
    [] v.t = "null" -> FALSE
    [] v.t = "number" -> v.n # 0
    [] v.t = "string" -> v.s # <<>>

\* the text a template literal `${v}` embeds
ToText(v) ==
  CASE v.t = "string" -> v.s
    [] v.t = "number" -> IF v.n = 0 THEN <<"0">> ELSE <<"1">>
    [] v.t = "null" -> <<"null">>
    [] v.t = "undefined" -> <<"undefined">>

\* what the request carries as its body:
\*   "unreadable": no body, or text that is not JSON (request.json() rejects)
\*   "null":       the JSON text null
\*   "scalar":     a JSON number, string, boolean or array (it has neither field)
\*   "object":     a JSON object with the two fields as given (JUndefined: absent)
BodyOf(k, tr, tp) == [k |-> k, transcription |-> tr, topic |-> tp]

Bodies ==
  {BodyOf("unreadable", JUndefined, JUndefined),
   BodyOf("null", JUndefined, JUndefined),
   BodyOf("scalar", JUndefined, JUndefined)}
  \cup {BodyOf("object", tr, tp) : tr \in FieldValues, tp \in FieldValues}

\* line 10: `const { transcription, topic } = await request.json()` throws when
\* the body is not JSON (SyntaxError) and when it is null (TypeError: null
\* cannot be destructured)
ParseThrows(body) == body.k \in {"unreadable", "null"}

\* the error line 10 throws
ParseError(body) ==
  IF body.k = "unreadable" THEN "SyntaxError: unexpected end of JSON input"
  ELSE "TypeError: cannot destructure property of null"

\* line 12
MissingField(body) == ~Truthy(body.transcription) \/ ~Truthy(body.topic)

\* line 19: the user instruction, which embeds both fields verbatim
UserPrompt(body) ==
  [transcription |-> ToText(body.transcription), topic |-> ToText(body.topic)]

\* ------------------------------------------- relay: the downstream outcomes
\* what `await openai.chat.completions.create(...)` does:
\*   k = "throw":    it throws err
\*   k = "resolve":  it resolves to a completion of the given shape:
\*       "nochoices":   no choices array at all (completion.choices[0] throws)
\*       "empty":       choices is []
\*       "nomessage":   choices[0] has no message
\*       "nullcontent": message.content is null
\*       "content":     message.content is the string content
ServiceErrors == {"network error", "401 invalid api key", "429 quota exceeded"}

OutcomeOf(k, err, shape, content) ==
  [k |-> k, err |-> err, shape |-> shape, content |-> content]

Outcomes ==
  {OutcomeOf("throw", e, "none", <<>>) : e \in ServiceErrors}
  \cup {OutcomeOf("resolve", "", sh, <<>>) : sh \in {"nochoices", "empty", "nomessage", "nullcontent"}}
  \cup {OutcomeOf("resolve", "", "content", c) : c \in Strings(MaxContentLen)}

\* the error the try block ends with after the downstream call, "" when none
DownstreamError(o) ==
  IF o.k = "throw" THEN o.err
  ELSE IF o.shape = "nochoices" THEN "TypeError: cannot read properties of undefined"
  ELSE ""

\* the downstream call succeeded: it resolved to a well-formed completion
Succeeds(o) == DownstreamError(o) = ""

FallbackPrompt == <<"Continue speaking naturally.">>

\* lines 34-36: completion.choices[0]?.message?.content?.trim() || fallback
AiPromptNoTrim(o) ==
  IF o.shape = "content" /\ o.content # <<>> THEN o.content ELSE FallbackPrompt

AiPrompt(o) ==
  IF o.shape = "content" /\ Trim(o.content) # <<>> THEN Trim(o.content) ELSE FallbackPrompt

\* ------------------------------------------------------ relay: responses
\* NextResponse.json(body, {status}): keys are the keys of the JSON body
NoResponse == [status |-> 0, keys |-> {}, error |-> "", prompt |-> <<>>]
ErrorResponse(status, msg) == [status |-> status, keys |-> {"error"}, error |-> msg, prompt |-> <<>>]
PromptResponse(p) == [status |-> 200, keys |-> {"prompt"}, error |-> "", prompt |-> p]

\* lines 13-16
MissingResponse == ErrorResponse(400, "Missing transcription or topic")

\* lines 39-45: the catch block
CatchResponseLeaky(err) == ErrorResponse(500, err)

CatchResponse(err) == ErrorResponse(500, "Failed to generate prompt")

\* lines 8-46: the response of the whole handler to a request with this body,
\* when the downstream call (if one is issued) ends as o
POST(body, o) ==
  IF ParseThrows(body) THEN CatchResponse(ParseError(body))
  ELSE IF MissingField(body) THEN MissingResponse
  ELSE IF ~Succeeds(o) THEN CatchResponse(DownstreamError(o))
  ELSE PromptResponse(AiPrompt(o))

\* ---------------------------------------------------------- relay: state
VARIABLES
  relayPc,        \* where the handler is: "idle", "received", "calling", "responded"
  relayBody,      \* the body of the request being handled
  relayCalls,     \* the calls issued to the Prompt Service for this request
  relayOutcome,   \* how the downstream call ended (NoOutcome: not ended)
  relayError,     \* the error the catch block caught and logged ("": none)
  relayResponse   \* the response returned (NoResponse: none yet)

relayVars == <<relayPc, relayBody, relayCalls, relayOutcome, relayError, relayResponse>>

NoBody == BodyOf("none", JUndefined, JUndefined)
NoOutcome == OutcomeOf("none", "", "none", <<>>)

RelayInit ==
  /\ relayPc = "idle"
  /\ relayBody = NoBody
  /\ relayCalls = <<>>
  /\ relayOutcome = NoOutcome
  /\ relayError = ""
  /\ relayResponse = NoResponse
\* ------------------------------------------------- session view: constants
\* bounds of the session model
\* RecordingPages mounted, one after the other
MaxMounts == 2
\* in a run that may mount more than one view: start actions, finalized
\* results handled, and chunks the recorders emit while they record (the
\* chunk a stop flushes is extra), over all views
MaxStartsAgain == 2
MaxResultsAgain == 1
MaxChunks == 1
\* in a run that mounts one view: start actions and finalized results handled
MaxStarts == 2
MaxResults == 2
\* results carried by one recognizer event
MaxEventLen == 2

\* lines 51-77: the topic catalog (ids)
Topics == {"job-interview", "presentation", "debate", "sales-pitch", "storytelling"}

\* the topic card the model clicks (the views of the other topics differ
\* only in the topic their relay requests carry)
ClickedTopics == {"debate"}

\* the fixed prompts of RecordingPage
InitialPrompt == <<"Click start to begin your session">>
StartSpeakingPrompt == <<"Start speaking to receive AI prompts.">>
NotSupportedPrompt == <<"Speech recognition not supported in this browser.">>
StoppedPrompt == <<"Recording stopped. Review your performance!">>

NoStream == "null"
TheStream == "mediaStream"
NoTopic == "null"
NoArrival == [id |-> 0, prompt |-> <<>>, late |-> FALSE]

\* what the recognizer hears as one result
Utterances == {<<"a">>, <<"b">>, <<>>}
ResultOf(f, t) == [isFinal |-> f, transcript |-> t]
\* (the transcript of a result that is not final is never read)
Results == {ResultOf(TRUE, t) : t \in Utterances} \cup {ResultOf(FALSE, <<"a">>)}
\* a SpeechRecognitionEvent: results and the (0-based) resultIndex
Events ==
  UNION {{[resultIndex |-> i, results |-> rs] : i \in 0..(k - 1), rs \in [1..k -> Results]}
         : k \in 1..MaxEventLen}

\* a Blob the recorder emits: the n-th of recorder rec, of the given size;
\* final: it is the data the recorder's stop() flushed
ChunkOf(r, n, sz, f) == [rec |-> r, n |-> n, size |-> sz, final |-> f]

\* ---------------------------------------------------- session view: state
VARIABLES
  view,           \* "home": Home shows the topics and no RecordingPage was mounted
                  \* yet; "mounted": a RecordingPage is mounted; "unmounted": onBack
                  \* unmounted it and Home shows the topics again
  mounts,         \* RecordingPages mounted so far; the current one is the last
  selectedTopic,  \* Home's state
  topicId,        \* the topicId prop each RecordingPage was rendered with
  hasSpeech,      \* "webkitSpeechRecognition" in window
  isRecording,    \* the state of the current RecordingPage as its last render
  currentPrompt,  \* holds it, lines 177-186
  stream,
  mediaRecorder,  \* 0: null, else the recorder's number
  recordedChunks,
  transcription,
  pendingStream,  \* setStream(mediaStream) was called and is not rendered yet
  pendingChunks,  \* the chunks setRecordedChunks was called to append, not
                  \* rendered yet
  pendingTranscription, \* the text setTranscription was called to append, not
                  \* rendered yet
  pendingPrompt,  \* <<p>>: setCurrentPrompt(p) was called last by a relay
                  \* response and is not rendered yet; <<>>: nothing is queued
  recognitionRef, \* recognitionRef.current; 0: null, else the recognizer's number
  cleanupStream,  \* the `stream` the effect's cleanup closure captured
  gum,            \* getUserMedia of each view: "idle", "pending", "resolved", "rejected"
  tracks,         \* the tracks of the stream each view acquired: "none", "live",
                  \* "stopped"
  acquired,       \* media streams each view acquired so far
  starts,         \* recorders created so far
  owner,          \* the view that created each recorder (and the recognizer of
                  \* the same number); 0: not created
  recorders,      \* MediaRecorder.state of each: "unborn", "recording", "inactive"
  finalPending,   \* recorders whose stop() has a dataavailable still to deliver
  emitted,        \* the chunks each recorder has emitted while it recorded, in order
  recognizers,    \* each recognizer: "unborn", "active", "stopping", "ended"
  issued,         \* the relay requests issued, in order
  issuedBy,       \* the view whose recognizer issued each request
  inflight,       \* the requests (indices of issued) not yet answered
  downloads,      \* the files downloaded, in order
  delivered,      \* history: the texts of the finalized results the recognizers
                  \* delivered, in order
  sinceStart,     \* history: those the recognizers of the current view delivered
                  \* since its most recent start
  lastArrival,    \* history: the last relay response with a prompt that reached the
                  \* mounted view since a click handler last set the prompt, and
                  \* whether the response to a later request was on display then
  budget,         \* the bounds of this run, one of Budgets
  lastOp          \* what ran last: a click handler by its name, or "callback" (a
                  \* promise, a recorder or recognizer event, a render)

homeVars == <<view, mounts, selectedTopic, topicId, hasSpeech, budget>>
reactVars == <<isRecording, currentPrompt, stream, mediaRecorder, recordedChunks, transcription>>
renderVars == <<pendingStream, pendingChunks, pendingTranscription, pendingPrompt>>
mediaVars == <<gum, tracks, acquired, cleanupStream>>
recorderVars == <<starts, owner, recorders, finalPending, emitted>>
speechVars == <<recognitionRef, recognizers>>
fetchVars == <<issued, issuedBy, inflight>>
speechHistory == <<delivered, sinceStart>>
fetchHistory == <<lastArrival>>
sessionVars ==
  <<homeVars, reactVars, renderVars, mediaVars, recorderVars, speechVars, fetchVars,
    downloads, speechHistory, fetchHistory, lastOp>>

vars == <<relayVars, sessionVars>>

\* what a run may spend: either it mounts one view and hears more, its
\* recorders emitting data only when they are stopped (recorder.start() of
\* line 229 sets no timeslice), or it mounts several views, hears less and its
\* recorders also emit chunks while they record
Budgets ==
  {[mounts |-> 1, starts |-> MaxStarts, results |-> MaxResults, chunks |-> 0],
   [mounts |-> MaxMounts, starts |-> MaxStartsAgain, results |-> MaxResultsAgain,
    chunks |-> MaxChunks]}

RecorderIds == 1..MaxStarts
Mounts == 1..MaxMounts

\* the RecordingPage of view m is the one mounted now: only then do its
\* setState calls do anything
Alive(m) == view = "mounted" /\ mounts = m

\* lines 177-189: the state of a RecordingPage as it mounts
FreshState ==
  [isRecording |-> FALSE, currentPrompt |-> InitialPrompt, stream |-> NoStream,
   mediaRecorder |-> 0, recordedChunks |-> <<>>, transcription |-> <<>>,
   recognitionRef |-> 0]

SessionInit ==
  /\ view = "home"
  /\ mounts = 0
  /\ selectedTopic = NoTopic
  /\ topicId = [m \in Mounts |-> NoTopic]
  /\ hasSpeech \in BOOLEAN
  /\ budget \in Budgets
  /\ isRecording = FreshState.isRecording
  /\ currentPrompt = FreshState.currentPrompt
  /\ stream = FreshState.stream
  /\ mediaRecorder = FreshState.mediaRecorder
  /\ recordedChunks = FreshState.recordedChunks
  /\ transcription = FreshState.transcription
  /\ recognitionRef = FreshState.recognitionRef
  /\ pendingStream = FALSE
  /\ pendingChunks = <<>>
  /\ pendingTranscription = <<>>
  /\ pendingPrompt = <<>>
  /\ cleanupStream = NoStream
  /\ gum = [m \in Mounts |-> "idle"]
  /\ tracks = [m \in Mounts |-> "none"]
  /\ acquired = [m \in Mounts |-> 0]
  /\ starts = 0
  /\ owner = [r \in RecorderIds |-> 0]
  /\ recorders = [r \in RecorderIds |-> "unborn"]
  /\ finalPending = {}
  /\ emitted = [r \in RecorderIds |-> <<>>]
  /\ recognizers = [r \in RecorderIds |-> "unborn"]
  /\ issued = <<>>
  /\ issuedBy = <<>>
  /\ inflight = {}
  /\ downloads = <<>>
  /\ delivered = <<>>
  /\ sinceStart = <<>>
  /\ lastArrival = NoArrival
  /\ lastOp = "none"

Init == RelayInit /\ SessionInit

\* --------------------------------------------------------- relay: actions
\* a request arrives at POST
Receive(body) ==
  /\ relayPc = "idle"
  /\ relayPc' = "received"
  /\ relayBody' = body
  /\ relayCalls' = <<>>
  /\ relayOutcome' = NoOutcome
  /\ relayError' = ""
  /\ relayResponse' = NoResponse
  /\ UNCHANGED sessionVars

\* lines 10-21: read the body, validate, and issue the downstream call
Validate ==
  /\ relayPc = "received"
  /\ IF ParseThrows(relayBody)
     THEN /\ relayPc' = "responded"
          /\ relayError' = ParseError(relayBody)
          /\ relayResponse' = CatchResponse(ParseError(relayBody))
          /\ UNCHANGED relayCalls
     ELSE IF MissingField(relayBody)
     THEN /\ relayPc' = "responded"
          /\ relayResponse' = MissingResponse
          /\ UNCHANGED <<relayCalls, relayError>>
     ELSE /\ relayPc' = "calling"
          /\ relayCalls' = Append(relayCalls, UserPrompt(relayBody))
          /\ UNCHANGED <<relayError, relayResponse>>
  /\ UNCHANGED <<relayBody, relayOutcome, sessionVars>>

\* lines 21-45: the downstream call ends as o
Complete(o) ==
  /\ relayPc = "calling"
  /\ relayOutcome' = o
  /\ relayPc' = "responded"
  /\ IF Succeeds(o)
     THEN /\ relayResponse' = PromptResponse(AiPrompt(o))
          /\ UNCHANGED relayError
     ELSE /\ relayError' = DownstreamError(o)
          /\ relayResponse' = CatchResponse(DownstreamError(o))
  /\ UNCHANGED <<relayBody, relayCalls, sessionVars>>

\* the response is sent; the handler is ready for the next request
Respond ==
  /\ relayPc = "responded"
  /\ relayPc' = "idle"
  /\ UNCHANGED <<relayBody, relayCalls, relayOutcome, relayError, relayResponse, sessionVars>>

RelayNext ==
  \/ \E body \in Bodies : Receive(body)
  \/ Validate
  \/ \E o \in Outcomes : Complete(o)
  \/ Respond

RelaySpec == Init /\ [][RelayNext]_vars
\* ------------------------------------------------- session view: actions
\* lines 120-131 and 177-213: a topic card is clicked; Home renders a new
\* RecordingPage with fresh state, whose effect (lines 194-213) runs once: it
\* calls getMedia and keeps the cleanup closure, which holds the `stream` of
\* this first render
handleTopicSelect(id) ==
  /\ view \in {"home", "unmounted"}
  /\ mounts < budget.mounts
  /\ view' = "mounted"
  /\ mounts' = mounts + 1
  /\ selectedTopic' = id
  /\ topicId' = [topicId EXCEPT ![mounts + 1] = id]
  /\ isRecording' = FreshState.isRecording
  /\ currentPrompt' = FreshState.currentPrompt
  /\ stream' = FreshState.stream
  /\ mediaRecorder' = FreshState.mediaRecorder
  /\ recordedChunks' = FreshState.recordedChunks
  /\ transcription' = FreshState.transcription
  /\ recognitionRef' = FreshState.recognitionRef
  /\ pendingStream' = FALSE
  /\ pendingChunks' = <<>>
  /\ pendingTranscription' = <<>>
  /\ pendingPrompt' = <<>>
  /\ gum' = [gum EXCEPT ![mounts + 1] = "pending"]
  /\ cleanupStream' = FreshState.stream
  /\ sinceStart' = <<>>
  /\ lastArrival' = NoArrival
  /\ lastOp' = "handleTopicSelect"
  /\ UNCHANGED <<hasSpeech, budget, tracks, acquired, recorderVars, recognizers,
                 fetchVars, downloads, delivered, relayVars>>

\* lines 197-202: getUserMedia of view m resolves; setStream is rendered
\* later, and does nothing once the component is unmounted
getMediaResolved(m) ==
  /\ gum[m] = "pending"
  /\ gum' = [gum EXCEPT ![m] = "resolved"]
  /\ tracks' = [tracks EXCEPT ![m] = "live"]
  /\ acquired' = [acquired EXCEPT ![m] = @ + 1]
  /\ pendingStream' = IF Alive(m) THEN TRUE ELSE pendingStream
  /\ lastOp' = "callback"
  /\ UNCHANGED <<homeVars, reactVars, pendingChunks, pendingTranscription, pendingPrompt,
                 cleanupStream, recorderVars, speechVars,
                 fetchVars, downloads, speechHistory, fetchHistory, relayVars>>

\* lines 203-205: getUserMedia of view m rejects; the error is logged
getMediaRejected(m) ==
  /\ gum[m] = "pending"
  /\ gum' = [gum EXCEPT ![m] = "rejected"]
  /\ lastOp' = "callback"
  /\ UNCHANGED <<homeVars, reactVars, renderVars, tracks, acquired, cleanupStream,
                 recorderVars, speechVars, fetchVars, downloads, speechHistory,
                 fetchHistory, relayVars>>

\* lines 177-189: React renders RecordingPage again with the state the
\* asynchronous callbacks have set since the last render; the handlers of
\* this render see it and the page shows it
Render ==
  /\ view = "mounted"
  /\ \/ pendingStream
     \/ pendingChunks # <<>>
     \/ pendingTranscription # <<>>
     \/ pendingPrompt # <<>>
  /\ stream' = IF pendingStream THEN TheStream ELSE stream
  /\ recordedChunks' = recordedChunks \o pendingChunks
  /\ transcription' = transcription \o pendingTranscription
  /\ currentPrompt' = IF pendingPrompt # <<>> THEN pendingPrompt[1] ELSE currentPrompt
  /\ pendingStream' = FALSE
  /\ pendingChunks' = <<>>
  /\ pendingTranscription' = <<>>
  /\ pendingPrompt' = <<>>
  /\ lastOp' = "callback"
  /\ UNCHANGED <<homeVars, isRecording, mediaRecorder, mediaVars, recorderVars,
                 speechVars, fetchVars, downloads, speechHistory, fetchHistory, relayVars>>

\* lines 128 and 210-212: "Back to Topics" unmounts RecordingPage; React runs
\* the effect's cleanup, which reads the `stream` its closure captured; what
\* was not rendered yet never is
onBack ==
  /\ view = "mounted"
  /\ view' = "unmounted"
  /\ selectedTopic' = NoTopic
  /\ tracks' = IF cleanupStream # NoStream THEN [tracks EXCEPT ![mounts] = "stopped"] ELSE tracks
  /\ pendingStream' = FALSE
  /\ pendingChunks' = <<>>
  /\ pendingTranscription' = <<>>
  /\ pendingPrompt' = <<>>
  /\ lastOp' = "onBack"
  /\ UNCHANGED <<mounts, topicId, hasSpeech, budget, reactVars, gum, acquired, cleanupStream,
                 recorderVars, speechVars, fetchVars, downloads, speechHistory,
                 fetchHistory, relayVars>>

\* line 231: setTranscription("")
KeepTranscription == UNCHANGED transcription

ClearTranscription == transcription' = <<>>

\* lines 232-267: the prompt startRecording shows and the recognizer it
\* starts, when the browser has one
StartRecognitionUnchecked ==
  /\ currentPrompt' = StartSpeakingPrompt
  /\ recognizers' = [recognizers EXCEPT ![starts + 1] = "active"]
  /\ recognitionRef' = starts + 1

StartRecognition ==
  IF hasSpeech
  THEN /\ currentPrompt' = StartSpeakingPrompt
       /\ recognizers' = [recognizers EXCEPT ![starts + 1] = "active"]
       /\ recognitionRef' = starts + 1
  ELSE /\ currentPrompt' = NotSupportedPrompt
       /\ UNCHANGED <<recognizers, recognitionRef>>

\* lines 219-267: startRecording once it has a stream
startRecordingBody ==
  /\ starts' = starts + 1
  /\ mediaRecorder' = starts + 1
  /\ recorders' = [recorders EXCEPT ![starts + 1] = "recording"]
  /\ owner' = [owner EXCEPT ![starts + 1] = mounts]
  /\ recordedChunks' = <<>>
  /\ pendingChunks' = <<>>
  /\ isRecording' = TRUE
  /\ ClearTranscription
  /\ pendingTranscription' = <<>>
  /\ StartRecognition
  /\ pendingPrompt' = <<>>
  /\ sinceStart' = <<>>
  /\ lastArrival' = NoArrival
  /\ lastOp' = "startRecording"
  /\ UNCHANGED <<homeVars, stream, pendingStream, mediaVars, finalPending, emitted,
                 fetchVars, downloads, delivered, relayVars>>

startRecordingNoGuard == startRecordingBody

\* lines 216-268
startRecording ==
  IF stream = NoStream
  THEN /\ lastOp' = "startRecording"
       /\ UNCHANGED <<homeVars, reactVars, renderVars, mediaVars, recorderVars,
                      speechVars, fetchVars, downloads, speechHistory, fetchHistory, relayVars>>
  ELSE startRecordingBody

\* MediaRecorder.stop(): the recorder becomes inactive and will deliver the
\* data it gathered in one more dataavailable event
StopRecorderNever(r) == UNCHANGED <<recorders, finalPending>>

StopRecorder(r) ==
  /\ recorders' = IF r # 0 /\ recorders[r] = "recording"
                  THEN [recorders EXCEPT ![r] = "inactive"] ELSE recorders
  /\ finalPending' = IF r # 0 /\ recorders[r] = "recording"
                     THEN finalPending \cup {r} ELSE finalPending

\* SpeechRecognition.stop(): the recognizer stops listening; it may still
\* return a result for the audio captured so far
StopRecognizerNever(g) == UNCHANGED recognizers

StopRecognizer(g) ==
  recognizers' = IF g # 0 /\ recognizers[g] = "active"
                 THEN [recognizers EXCEPT ![g] = "stopping"] ELSE recognizers

\* lines 278-286: the download of the chunks this render holds
DownloadAlways ==
  downloads' = Append(downloads, [rec |-> mediaRecorder, content |-> recordedChunks])

Download ==
  downloads' = IF Len(recordedChunks) > 0
               THEN Append(downloads, [rec |-> mediaRecorder, content |-> recordedChunks])
               ELSE downloads

\* lines 271-287
stopRecording ==
  /\ StopRecorder(mediaRecorder)
  /\ StopRecognizer(recognitionRef)
  /\ isRecording' = FALSE
  /\ currentPrompt' = StoppedPrompt
  /\ pendingPrompt' = <<>>
  /\ Download
  /\ lastArrival' = NoArrival
  /\ lastOp' = "stopRecording"
  /\ UNCHANGED <<homeVars, stream, mediaRecorder, recordedChunks, transcription, pendingStream,
                 pendingChunks, pendingTranscription, mediaVars, starts, owner, emitted, recognitionRef, fetchVars, speechHistory,
                 relayVars>>

\* lines 311-320: the button runs startRecording when the view is not recording
ClickStart ==
  /\ view = "mounted"
  /\ ~isRecording
  /\ starts < budget.starts
  /\ startRecording

\* lines 311-320: the button runs stopRecording when the view is recording
ClickStop ==
  /\ view = "mounted"
  /\ isRecording
  /\ stopRecording

\* lines 223-227: recorder.ondataavailable; the append setRecordedChunks asks
\* for is rendered later, and does nothing once the component that created
\* the recorder is unmounted
ondataavailable(chunk) ==
  pendingChunks' = IF chunk.size > 0 /\ Alive(owner[chunk.rec])
                   THEN Append(pendingChunks, chunk) ELSE pendingChunks

\* the chunks emitted so far by recorders that were recording
Recorded ==
  Cardinality(UNION {{emitted[r][i] : i \in 1..Len(emitted[r])} : r \in RecorderIds})

\* a recorder that records emits a chunk
RecorderData(r, sz) ==
  /\ recorders[r] = "recording"
  /\ Recorded < budget.chunks
  /\ emitted' = [emitted EXCEPT ![r] = Append(@, ChunkOf(r, Len(@) + 1, sz, FALSE))]
  /\ ondataavailable(ChunkOf(r, Len(emitted[r]) + 1, sz, FALSE))
  /\ lastOp' = "callback"
  /\ UNCHANGED <<homeVars, reactVars, pendingStream, pendingTranscription, pendingPrompt,
                 mediaVars, starts, owner, recorders, finalPending, speechVars, fetchVars, downloads, speechHistory, fetchHistory,
                 relayVars>>

\* a stopped recorder delivers the data its stop() flushed
RecorderFinalData(r, sz) ==
  /\ r \in finalPending
  /\ finalPending' = finalPending \ {r}
  /\ ondataavailable(ChunkOf(r, Len(emitted[r]) + 1, sz, TRUE))
  /\ lastOp' = "callback"
  /\ UNCHANGED <<homeVars, reactVars, pendingStream, pendingTranscription, pendingPrompt,
                 mediaVars, starts, owner, recorders, emitted,
                 speechVars, fetchVars, downloads, speechHistory, fetchHistory, relayVars>>

\* lines 241-243: the transcripts of the results at or after resultIndex that
\* are final, in order
RECURSIVE FinalTranscripts(_, _)
FinalTranscripts(rs, i) ==
  IF i > Len(rs) THEN <<>>
  ELSE (IF rs[i].isFinal THEN <<rs[i].transcript>> ELSE <<>>) \o FinalTranscripts(rs, i + 1)

RECURSIVE Concat(_)
Concat(ts) == IF ts = <<>> THEN <<>> ELSE Head(ts) \o Concat(Tail(ts))

\* lines 246-253: the body of the request fetch sends
RequestBodyAccumulated(transcript, topic) ==
  BodyOf("object", JStr(transcription \o transcript), JStr(<<topic>>))

RequestBody(transcript, topic) ==
  BodyOf("object", JStr(transcript), JStr(<<topic>>))

\* lines 240-261: recognition.onresult of recognizer g; the append
\* setTranscription asks for is rendered later, and does nothing once the
\* component that created the recognizer is unmounted
onresultOverwrite(g, ev) ==
  LET ts == FinalTranscripts(ev.results, ev.resultIndex + 1)
  IN /\ pendingTranscription' =
          IF Alive(owner[g]) /\ ts # <<>> THEN ts[Len(ts)] ELSE pendingTranscription
     /\ issued' = issued \o [k \in 1..Len(ts) |-> RequestBody(ts[k], topicId[owner[g]])]
     /\ issuedBy' = issuedBy \o [k \in 1..Len(ts) |-> owner[g]]
     /\ inflight' = inflight \cup ((Len(issued) + 1)..(Len(issued) + Len(ts)))

onresult(g, ev) ==
  LET ts == FinalTranscripts(ev.results, ev.resultIndex + 1)
  IN /\ pendingTranscription' =
          IF Alive(owner[g]) THEN pendingTranscription \o Concat(ts) ELSE pendingTranscription
     /\ issued' = issued \o [k \in 1..Len(ts) |-> RequestBody(ts[k], topicId[owner[g]])]
     /\ issuedBy' = issuedBy \o [k \in 1..Len(ts) |-> owner[g]]
     /\ inflight' = inflight \cup ((Len(issued) + 1)..(Len(issued) + Len(ts)))

\* the texts of the finalized results an event delivers: those at or after
\* its resultIndex
Delivered(ev) ==
  LET fresh == SubSeq(ev.results, ev.resultIndex + 1, Len(ev.results))
      finals == SelectSeq(fresh, LAMBDA r : r.isFinal)
  IN [k \in 1..Len(finals) |-> finals[k].transcript]

\* a recognizer that listens, or that was stopped and flushes what it heard,
\* delivers an event
RecognizerResult(g, ev) ==
  /\ recognizers[g] \in {"active", "stopping"}
  /\ Len(issued) + Len(FinalTranscripts(ev.results, ev.resultIndex + 1)) <= budget.results
  /\ onresult(g, ev)
  /\ recognizers' = IF recognizers[g] = "stopping"
                    THEN [recognizers EXCEPT ![g] = "ended"] ELSE recognizers
  /\ delivered' = delivered \o Delivered(ev)
  /\ sinceStart' = IF owner[g] = mounts THEN sinceStart \o Delivered(ev) ELSE sinceStart
  /\ lastOp' = "callback"
  /\ UNCHANGED <<homeVars, reactVars, pendingStream, pendingChunks, pendingPrompt, mediaVars,
                 recorderVars, recognitionRef, downloads, fetchHistory, relayVars>>

\* a stopped recognizer ends (the component has no onend handler)
RecognizerEnd(g) ==
  /\ recognizers[g] = "stopping"
  /\ recognizers' = [recognizers EXCEPT ![g] = "ended"]
  /\ lastOp' = "callback"
  /\ UNCHANGED <<homeVars, reactVars, renderVars, mediaVars, recorderVars, recognitionRef,
                 fetchVars, downloads, speechHistory, fetchHistory, relayVars>>

\* the downstream outcomes the session model answers a relay request with
SessionOutcomes ==
  {o \in Outcomes : /\ Len(o.content) <= 1
                    /\ o.err \in {"", "network error"}
                    /\ o.shape \in {"none", "empty", "content"}}

\* line 256: if (data.prompt), for the response data to request id
HasPromptAlways(id, data) == TRUE

HasPromptFresh(id, data) ==
  "prompt" \in data.keys /\ data.prompt # <<>> /\ id > lastArrival.id

HasPromptWhileRecording(id, data) ==
  "prompt" \in data.keys /\ data.prompt # <<>> /\ isRecording

HasPrompt(id, data) == "prompt" \in data.keys /\ data.prompt # <<>>

\* lines 254-257: the relay answers request id with POST's response, the
\* downstream call having ended as o; the prompt setCurrentPrompt sets is
\* rendered later, and the call does nothing once the component whose
\* recognizer sent the request is unmounted
FetchResolved(id, o) ==
  /\ id \in inflight
  /\ inflight' = inflight \ {id}
  /\ LET data == POST(issued[id], o)
         shows == HasPrompt(id, data) /\ Alive(issuedBy[id])
         carries == data.status = 200 /\ Alive(issuedBy[id])
     IN /\ pendingPrompt' = IF shows THEN <<data.prompt>> ELSE pendingPrompt
        /\ lastArrival' = IF carries
                          THEN [id |-> id, prompt |-> data.prompt,
                                late |-> lastArrival.id > id /\ pendingPrompt = <<>>]
                          ELSE lastArrival
  /\ lastOp' = "callback"
  /\ UNCHANGED <<homeVars, reactVars, pendingStream, pendingChunks, pendingTranscription,
                 mediaVars, recorderVars, speechVars, issued, issuedBy, downloads,
                 speechHistory, relayVars>>

\* line 258: the request fails (network error, or a body that is not JSON);
\* the error is logged
FetchRejected(id) ==
  /\ id \in inflight
  /\ inflight' = inflight \ {id}
  /\ lastOp' = "callback"
  /\ UNCHANGED <<homeVars, reactVars, renderVars, mediaVars, recorderVars, speechVars, issued,
                 issuedBy, downloads, speechHistory, fetchHistory, relayVars>>

Next ==
  \/ \E id \in ClickedTopics : handleTopicSelect(id)
  \/ \E m \in Mounts : getMediaResolved(m)
  \/ \E m \in Mounts : getMediaRejected(m)
  \/ Render
  \/ onBack
  \/ ClickStart
  \/ ClickStop
  \/ \E r \in RecorderIds, sz \in {0, 1} : RecorderData(r, sz)
  \/ \E r \in RecorderIds, sz \in {0, 1} : RecorderFinalData(r, sz)
  \/ \E g \in RecorderIds, ev \in Events : RecognizerResult(g, ev)
  \/ \E g \in RecorderIds : RecognizerEnd(g)
  \/ \E id \in 1..MaxResults, o \in SessionOutcomes : FetchResolved(id, o)
  \/ \E id \in 1..MaxResults : FetchRejected(id)

Spec == Init /\ [][Next]_vars
\* ================================================================ claims
\* ------------------------------------------------------------------- relay

\* a field of the body that is empty or missing
EmptyOrMissing(v) == v.t \in {"undefined", "null"} \/ (v.t = "string" /\ v.s = <<>>)

\* the request's transcription or topic is empty or missing; a body that is
\* no JSON object carries neither field
LacksField(body) ==
  body.k # "object" \/ EmptyOrMissing(body.transcription) \/ EmptyOrMissing(body.topic)

\* C1: every request whose transcription or topic is empty or missing,
\* bodies that carry neither field included, is answered 400
\* {error: "Missing transcription or topic"}, and no call to the Prompt
\* Service is issued for it.
C1_MissingFieldIs400 ==
  (relayPc = "responded" /\ LacksField(relayBody)) =>
    /\ relayResponse = [status |-> 400, keys |-> {"error"},
                        error |-> "Missing transcription or topic", prompt |-> <<>>]
    /\ relayCalls = <<>>

\* C2: a valid request whose downstream call throws or fails is answered 500
\* with exactly {error: "Failed to generate prompt"}: nothing of the
\* underlying error is in the response, and the downstream call was issued
\* once (no retry).
C2_DownstreamFailureIs500 ==
  /\ Len(relayCalls) <= 1
  /\ (relayPc = "responded" /\ relayOutcome # NoOutcome /\ ~Succeeds(relayOutcome)) =>
       /\ relayResponse = [status |-> 500, keys |-> {"error"},
                           error |-> "Failed to generate prompt", prompt |-> <<>>]
       /\ relayError # ""
       /\ relayResponse.error # relayError
       /\ Len(relayCalls) = 1

C2_Witness ==
  /\ relayPc = "responded"
  /\ relayOutcome.k = "throw"
  /\ relayOutcome.err = "401 invalid api key"
  /\ relayResponse.status = 500
  /\ Truthy(relayBody.transcription) /\ Truthy(relayBody.topic)

\* the positions of a text that hold no whitespace
Solid(c) == {i \in 1..Len(c) : c[i] \notin Whitespace}
Least(S) == CHOOSE i \in S : \A j \in S : i <= j
Greatest(S) == CHOOSE i \in S : \A j \in S : j <= i

\* C3: a valid request whose downstream call succeeds is answered 200 with a
\* non-empty prompt: the completion text from its first to its last
\* non-whitespace character when it has one, and "Continue speaking
\* naturally." when the completion is absent, empty or whitespace only.
C3_SuccessIs200WithPrompt ==
  (relayPc = "responded" /\ relayOutcome # NoOutcome /\ Succeeds(relayOutcome)) =>
    LET c == relayOutcome.content
    IN /\ relayResponse.status = 200
       /\ relayResponse.keys = {"prompt"}
       /\ relayResponse.prompt # <<>>
       /\ IF relayOutcome.shape = "content" /\ Solid(c) # {}
          THEN relayResponse.prompt = SubSeq(c, Least(Solid(c)), Greatest(Solid(c)))
          ELSE relayResponse.prompt = <<"Continue speaking naturally.">>

C3_Witness ==
  /\ relayPc = "responded"
  /\ relayOutcome.shape = "content"
  /\ relayOutcome.content = <<" ", "a", " ">>
  /\ relayResponse.status = 200
  /\ relayResponse.prompt = <<"a">>

\* ------------------------------------------------------------ session view

\* C4: after teardown of a session view every track of the media stream the
\* view acquired is stopped, for every view torn down so far.
\* the views torn down so far: every view but the one mounted now
TornDown == {m \in Mounts : m < mounts \/ (m = mounts /\ view = "unmounted")}

C4_TracksStoppedAfterTeardown ==
  \A m \in TornDown : tracks[m] # "live"

\* the recorders of view m that record, its recognizers that listen
Recording(m) == {r \in RecorderIds : owner[r] = m /\ recorders[r] = "recording"}
Listening(m) == {g \in RecorderIds : owner[g] = m /\ recognizers[g] = "active"}

\* C5: within one session view at most one media stream is held, at most one
\* recognizer is active and at most one recorder records, at any time (the
\* recorders and recognizers of a view torn down while recording are counted
\* with that view, not with the next one).
C5_AtMostOneStreamAndRecognizer ==
  \A m \in Mounts :
    /\ acquired[m] <= 1
    /\ Cardinality(Listening(m)) <= 1
    /\ Cardinality(Recording(m)) <= 1

C5_Witness ==
  /\ starts = 2
  /\ recorders[1] = "inactive" /\ recorders[2] = "recording"
  /\ recognizers[1] \in {"stopping", "ended"} /\ recognizers[2] = "active"
  /\ owner[1] = 1 /\ owner[2] = 1
  /\ acquired[1] = 1

\* C6: once the session has ended (stop) or the component is unmounted, no
\* recognizer the session started is still active: none of a view torn down,
\* and none of the mounted view when it is idle.
C6_RecognizerStoppedOnEveryExit ==
  /\ \A m \in TornDown : Listening(m) = {}
  /\ (view = "mounted" /\ ~isRecording) => Listening(mounts) = {}

\* C7: a stop action triggers at most one download, and one only if the
\* chunk list the view holds is non-empty at the moment of the stop.
C7_StopDownloadsOnlyChunks ==
  [][ClickStop =>
       /\ Len(downloads') <= Len(downloads) + 1
       /\ (downloads' # downloads => recordedChunks # <<>>)]_vars

C7_Witness ==
  /\ lastOp = "stopRecording"
  /\ starts = 1
  /\ emitted[1] = <<>>
  /\ downloads = <<>>

\* the chunks of size > 0 recorder r emitted before it was stopped, in order
PositiveBeforeStop(r) ==
  SelectSeq(emitted[r], LAMBDA c : c.size > 0 /\ ~c.final)

\* C8: when a stop ends a session whose recorder emitted a chunk of size > 0,
\* a download is triggered whose content is exactly the chunks of size > 0
\* that recorder emitted, in emission order.  (Read in the claim's favour:
\* only the chunks emitted before the stop are asked for.)
C8_DownloadIsTheSessionsChunks ==
  \A r \in RecorderIds :
    (recorders[r] = "inactive" /\ PositiveBeforeStop(r) # <<>>) =>
      \E i \in 1..Len(downloads) :
        downloads[i].rec = r /\ downloads[i].content = PositiveBeforeStop(r)

\* C9: a start action taken while the view holds no stream (acquisition
\* pending or failed, or resolved and not rendered yet) changes nothing: not
\* the recording flag, the prompt, the transcript, the chunks, the recorder
\* or the recognizer, and it creates no recorder and no recognizer.
C9_StartWithoutStreamIsNoOp ==
  [][(ClickStart /\ stream = NoStream) =>
       UNCHANGED <<isRecording, currentPrompt, transcription, recordedChunks, mediaRecorder,
                   recognitionRef, starts, recorders, recognizers>>]_vars

C9_Witness ==
  /\ lastOp = "startRecording"
  /\ stream = NoStream
  /\ gum[mounts] = "rejected"

\* C10: a start action taken in Idle with an acquired stream (one the view
\* holds in its state), where speech recognition exists, ends with the
\* recording flag true, the transcript and the chunk list empty, the prompt
\* "Start speaking to receive AI prompts.", and one new recorder recording and
\* one new recognizer active, the only ones of this view.
C10_StartResetsSession ==
  [][(ClickStart /\ stream # NoStream /\ hasSpeech) =>
       /\ isRecording'
       /\ transcription' = <<>>
       /\ recordedChunks' = <<>>
       /\ currentPrompt' = <<"Start speaking to receive AI prompts.">>
       /\ mediaRecorder' # 0 /\ recorders[mediaRecorder'] = "unborn"
       /\ {r \in RecorderIds : owner'[r] = mounts /\ recorders'[r] = "recording"}
            = {mediaRecorder'}
       /\ recognitionRef' # 0 /\ recognizers[recognitionRef'] = "unborn"
       /\ {g \in RecorderIds : owner'[g] = mounts /\ recognizers'[g] = "active"}
            = {recognitionRef'}]_vars

C10_Witness ==
  /\ lastOp = "startRecording"
  /\ starts = 2
  /\ hasSpeech
  /\ issued # <<>>
  /\ downloads # <<>>
  /\ isRecording /\ transcription = <<>> /\ recordedChunks = <<>>

\* ---------------------------------------------------- speech and the relay

\* C11: where the browser has no speech recognition, a start with a stream
\* (one the view holds in its state) still records (flag true, recorder
\* recording, chunks collected) and shows "Speech recognition not supported
\* in this browser." until the stop; no
\* recognizer is ever created, no relay request is ever issued and the
\* transcript stays empty.
C11_RecordsWithoutRecognition ==
  ~hasSpeech =>
    /\ \A g \in RecorderIds : recognizers[g] = "unborn"
    /\ recognitionRef = 0
    /\ issued = <<>> /\ inflight = {} /\ delivered = <<>>
    /\ transcription = <<>> /\ pendingTranscription = <<>>
    /\ (lastOp = "startRecording" /\ stream # NoStream) => isRecording
    /\ isRecording =>
         /\ recorders[mediaRecorder] = "recording"
         /\ currentPrompt = <<"Speech recognition not supported in this browser.">>

C11_Witness ==
  /\ ~hasSpeech
  /\ view = "mounted" /\ isRecording /\ starts = 2
  /\ recorders[2] = "recording"
  /\ Len(recordedChunks) = 1 /\ recordedChunks[1].rec = 2
  /\ downloads = <<>>
  /\ currentPrompt = <<"Speech recognition not supported in this browser.">>

\* C12: once a stop action has completed, the session's chunk list is empty:
\* no chunk of the finished recording is retained in session state.
C12_ChunksDiscardedOnStop ==
  (view = "mounted" /\ ~isRecording) => recordedChunks = <<>>

\* C13: every finalized result a recognizer event delivers at or after its
\* resultIndex causes exactly one relay request, carrying that result's text
\* alone and the topic identifier of the recognizer's session view; results that are not final cause
\* none. So the requests issued are, in order, one per finalized result
\* delivered.
C13_OneRequestPerFinalResult ==
  /\ Len(issued) = Len(delivered)
  /\ \A i \in 1..Len(issued) :
       issued[i] = [k |-> "object",
                    transcription |-> [t |-> "string", s |-> delivered[i], n |-> 0],
                    topic |-> [t |-> "string", s |-> <<topicId[issuedBy[i]]>>, n |-> 0]]
  /\ inflight \subseteq 1..Len(issued)

C13_Witness ==
  /\ view = "mounted"
  /\ delivered = <<<<"a">>, <<"b">>>>
  /\ transcription = <<"a", "b">>
  /\ Len(issued) = 2
  /\ issued[2].transcription.s = <<"b">>
  /\ topicId[mounts] = "debate"

\* the texts of a sequence of results, joined in order
RECURSIVE Joined(_)
Joined(ts) == IF Len(ts) = 0 THEN <<>> ELSE Joined(SubSeq(ts, 1, Len(ts) - 1)) \o ts[Len(ts)]

\* C14: at every point of a mounted session the accumulated transcript (what
\* the view has rendered, followed by what is queued for its next render) is
\* the concatenation, in finalization order, of the texts of all finalized
\* results delivered since the most recent start: it grows only by appending,
\* and only a start resets it.
C14_TranscriptIsFinalsSinceStart ==
  view = "mounted" => transcription \o pendingTranscription = Joined(sinceStart)

C14_Witness ==
  /\ view = "mounted"
  /\ starts = 2
  /\ delivered = <<<<"a">>, <<"b">>>>
  /\ sinceStart = <<<<"b">>>>
  /\ transcription = <<"b">> /\ pendingTranscription = <<>>

\* the session state a relay response may touch only through the prompt
SessionButPrompt ==
  <<homeVars, isRecording, stream, mediaRecorder, recordedChunks, transcription,
    pendingStream, pendingChunks, pendingTranscription, mediaVars, recorderVars,
    speechVars, issued, issuedBy, downloads>>

\* C15: when a relay response reaches the view that sent the request and
\* that view is mounted, the prompt set for display becomes the response's
\* prompt field if that field is present and not empty, and keeps its value
\* otherwise; nothing else of the session changes.  A 400 or 500 response, or a
\* request that fails, changes nothing at all.  The prompt set is on display
\* from the view's next render (a start or stop clicked before that render
\* sets its own prompt after it).
C15_ResponseReplacesPromptIffCarried ==
  [][/\ \A id \in 1..MaxResults, o \in SessionOutcomes :
          FetchResolved(id, o) =>
            LET resp == POST(issued[id], o)
            IN /\ UNCHANGED <<SessionButPrompt, currentPrompt>>
               /\ Alive(issuedBy[id]) =>
                    pendingPrompt' = IF "prompt" \in resp.keys /\ resp.prompt # <<>>
                                     THEN <<resp.prompt>> ELSE pendingPrompt
               /\ (~Alive(issuedBy[id]) \/ resp.status \in {400, 500}) =>
                    UNCHANGED pendingPrompt
     /\ \A id \in 1..MaxResults :
          FetchRejected(id) => UNCHANGED <<SessionButPrompt, currentPrompt, pendingPrompt>>
     /\ (Render /\ pendingPrompt # <<>>) => currentPrompt' = pendingPrompt[1]
    ]_vars

C15_Witness ==
  /\ view = "mounted" /\ isRecording
  /\ Len(issued) = 2 /\ inflight = {}
  /\ issued[1].transcription.s = <<"a">> /\ issued[2].transcription.s = <<>>
  /\ lastArrival.id = 1
  /\ currentPrompt = <<"a">> /\ pendingPrompt = <<>>

\* the prompt the page shows once the view has rendered what is queued
Displayed == IF pendingPrompt # <<>> THEN pendingPrompt[1] ELSE currentPrompt

\* C16: no order is enforced between relay calls in flight together: the
\* prompt on display, once the view has rendered, is always that of the last
\* response to arrive, also when it answers an earlier request than the
\* response displayed before it.
C16_LastArrivalIsDisplayed ==
  (view = "mounted" /\ lastArrival.id # 0) => Displayed = lastArrival.prompt

C16_Witness ==
  /\ view = "mounted"
  /\ Len(issued) = 2 /\ inflight = {}
  /\ lastArrival = [id |-> 1, prompt |-> <<"a">>, late |-> TRUE]
  /\ currentPrompt = <<"a">> /\ pendingPrompt = <<>>

\* C17: a stop cancels no relay call in flight: when a response carrying a
\* prompt reaches the idle view after the stop, the prompt on display, once
\* the view has rendered, is that response's prompt and no longer "Recording
\* stopped. Review your performance!".
C17_ResponseAfterStopIsDisplayed ==
  (view = "mounted" /\ ~isRecording /\ lastArrival.id # 0) =>
    /\ lastArrival.id \in 1..Len(issued) \ inflight
    /\ Displayed = lastArrival.prompt
    /\ Displayed # <<"Recording stopped. Review your performance!">>

C17_Witness ==
  /\ view = "mounted" /\ ~isRecording
  /\ starts = 1 /\ recorders[1] = "inactive"
  /\ lastArrival.id = 1
  /\ currentPrompt = <<"Continue speaking naturally.">> /\ pendingPrompt = <<>>

\* ---------------------------------------------------------- relay, again

\* C18: the relay answers 500 only when a downstream call was issued and
\* failed; a request that fails before the call (a body that cannot be read,
\* a body without the two fields) never gets a 500.
C18_ServerErrorOnlyAfterDownstreamFailure ==
  relayResponse.status = 500 =>
    /\ Len(relayCalls) = 1
    /\ relayOutcome # NoOutcome
    /\ ~Succeeds(relayOutcome)

\* ------------------------------------------------------ recorder and flag

\* C19: in a mounted view the recording flag is true exactly when the
\* recorder of the most recent start records, and then no other recorder
\* does: after a start with a stream the flag is true, after a stop it is
\* false and no recorder of the view records. So the button, which stops when
\* the flag is true and starts when it is false, never stops a recorder that
\* is inactive or absent and never starts while a recorder records.
C19_FlagTracksTheRecorder ==
  view = "mounted" =>
    /\ Recording(mounts) = IF isRecording THEN {mediaRecorder} ELSE {}
    /\ isRecording => (mediaRecorder = starts /\ starts > 0)
    /\ (lastOp = "startRecording" /\ stream # NoStream) => isRecording
    /\ lastOp = "stopRecording" => ~isRecording

\* the second view has stopped its recorder while the recorder of the first
\* view, left recording by Back, still records
C19_Witness ==
  /\ view = "mounted" /\ mounts = 2
  /\ lastOp = "stopRecording"
  /\ starts = 2 /\ mediaRecorder = 2
  /\ owner[1] = 1 /\ recorders[1] = "recording"
  /\ owner[2] = 2 /\ recorders[2] = "inactive"
  /\ ~isRecording

\* C20: sessions do not share chunks: after a start the chunk list holds only
\* chunks of the recorder that start created, and a download holds only
\* chunks of the recorder whose session it ends; a chunk an earlier, stopped
\* recorder delivers late is in neither.
C20_ChunksOfThisSessionOnly ==
  /\ view = "mounted" =>
       \A i \in 1..Len(recordedChunks) : recordedChunks[i].rec = mediaRecorder
  /\ \A d \in 1..Len(downloads) :
       \A i \in 1..Len(downloads[d].content) : downloads[d].content[i].rec = downloads[d].rec

\* ------------------------------------------------- results after the stop

\* C21: the transcript is appended to (an append is queued for the view's
\* next render) and relay requests are issued only while the recording flag
\* is true in a mounted view: a finalized result delivered after the stop, or
\* after the view is torn down, does neither.
C21_SpeechOnlyWhileRecording ==
  [][(\/ Len(issued') > Len(issued)
      \/ Len(pendingTranscription') > Len(pendingTranscription))
       => (view = "mounted" /\ isRecording)]_vars
====
